---- MODULE Spec2Model ----
(***************************************************************************)
(* Usage-event delivery pipeline of the LiteLLM -> Lago integration:       *)
(*   central-services/integration/main.py   (ingress endpoint, inline      *)
(*       delivery in process_usage_event, background dispatcher            *)
(*       process_queued_events)                                            *)
(*   central-services/integration/worker.py (EventProcessor: polling       *)
(*       dispatcher with a semaphore-bounded batch)                        *)
(*   central-services/litellm/webhook-handler.py (a second ingress         *)
(*       endpoint with its own table webhook_events and its own retry      *)
(*       loop retry_failed_events)                                         *)
(* main.py and worker.py work on the same event_queue table.  Every await of the   *)
(* code (one SQL statement, one HTTP call) is one step of the model.       *)
(*                                                                         *)
(* The store is modelled by the logical content of the SQL statements: an  *)
(* UPDATE ... WHERE id = $1 is one atomic change of one row, a SELECT      *)
(* returns the rows its WHERE clause names in ORDER BY order up to LIMIT.  *)
(* worker.py's get_pending_events passes max_retries, retry_delay and the  *)
(* limit, in this order, to a statement that reads retry_count < $1, an    *)
(* interval of retry_delay seconds and LIMIT $2; the model takes the three *)
(* values where the statement text places them.                            *)
(***************************************************************************)
EXTENDS Integers, Sequences, FiniteSets, TLC

\* ---------------------------------------------------------------- constants
\* Config.max_retries / WorkerConfig.max_retries (MAX_RETRIES, default 3).
MaxRetries == 3
\* Config.retry_delay / WorkerConfig.retry_delay, in clock ticks.
RetryDelay == 1
\* Config.batch_size / WorkerConfig.batch_size: LIMIT of one selection.
BatchSize == 2
\* WorkerConfig.worker_concurrency: size of the batch semaphore.
WorkerConcurrency == 1

\* ------------------------------------------------------------------- bounds
\* Number of webhook requests received while the dispatchers run (Spec,
\* SpecLive, SpecCrash), by both endpoints (SpecEndpoints), by
\* webhook-handler.py (SpecHandler).
MaxIngest == 1
\* Number of webhook requests received by the ingress alone (SpecIngress).
MaxRequests == 2
\* Number of rows the worker finds in the queue (SpecWorker).
WorkerRows == 3
\* Number of process crashes in one behaviour (SpecCrash).
MaxCrashes == 1
\* Calls to the billing API followed per webhook_events row (SpecHandler).
MaxDeliveries == 5
\* Exceptions raised while entries are processed (SpecFaults).
MaxExceptions == 1

\* last_retry_at and processed_at hold the age of the timestamp, NOW() minus
\* the column, in clock ticks: Written (0) when just written, at most
\* Elapsed, which stands for every age greater than retry_delay.  NULL is
\* SQL NULL.  The rows of webhook_events keep processed_at as NULL or
\* Written: no clock runs in the specification that holds them.
NULL == -1
Written == 0
Elapsed == RetryDelay + 1
Age(ts) == IF ts = NULL \/ ts = Elapsed THEN ts ELSE ts + 1
NoError == << "NULL" >>

Users == {"u1"}

\* What a request carries in its X-Webhook-Signature header: no header, a
\* value that is not the HMAC of the body, the HMAC of the body.
Signatures == {"missing", "wrong", "valid"}

\* Request bodies: a valid usage record, a body that is not JSON, JSON that
\* lacks a required field, JSON with a required field of a type the model
\* cannot take.
Payloads == {"ok", "not_json", "missing_field", "ill_typed"}

\* What the call to the billing API gives: an HTTP status, or NoResponse
\* when the transport raised (connection error, timeout).
NoResponse == 0
Responses == {NoResponse, 200, 201, 500}
\* The two answers that stand for a delivery accepted and a delivery refused.
Outcomes == {200, 500}

\* Usage records the source system sends: id, startTime and endTime in half
\* seconds (so that two start times can fall into the same unix second),
\* user, total_tokens.  The two records are one logical event (same id, same
\* startTime) reported with different quantities.
RecordSet ==
    { [id |-> 1, start |-> 2, end |-> 3, user |-> "u1", total_tokens |-> 10],
      [id |-> 1, start |-> 2, end |-> 3, user |-> "u1", total_tokens |-> 20] }

\* A record that is well formed for the request models and whose endTime
\* lies before its startTime.
BackwardRecords ==
    { [id |-> 1, start |-> 2, end |-> 1, user |-> "u1", total_tokens |-> 10] }

VARIABLES
    queue,      \* event_queue table: sequence of rows, row id = index,
                \* in created_at order
    mapping,    \* customer_mappings table: user -> "none"|"active"|"inactive"
    req,        \* webhook requests: response given and the background task
    nreq,       \* number of webhook requests received
    mainBatch,  \* main.py process_queued_events: rows of the running sweep
    mainPc,     \* "sleep" | "send" | "update"
    mainRes,    \* outcome of the send awaiting its status update
    wTasks,     \* worker.py process_batch: the gathered tasks of the cycle
    attempts,   \* per row: Billing API calls made (observed at Lago)
    recorded,   \* per row: status updates executed
    webhook_secret, \* config: TRUE iff LAGO_WEBHOOK_SECRET is set
    crashes,    \* number of process crashes so far
    webhook_events, \* webhook-handler.py: its table, row id = index
    retryBatch, \* webhook-handler.py retry_failed_events: rows of the sweep
    retryPc,    \* "sleep" | "send" | "update"
    retryRes,   \* outcome of the send awaiting its update
    delivered,  \* per webhook_events row: Billing API calls made
    running,    \* worker.py EventProcessor.running
    closed,     \* worker.py: EventProcessor.close() has closed the database
                \* pool and the HTTP session
    exited,     \* worker.py: run_processing_loop has returned
    exceptions  \* exceptions raised so far while an entry was processed

\* The state of webhook-handler.py, which main.py and worker.py never touch.
handlerVars == << webhook_events, retryBatch, retryPc, retryRes, delivered >>

\* The life cycle of the worker process and the count of exceptions.
lifeVars == << running, closed, exited, exceptions >>

vars == << queue, mapping, req, nreq, mainBatch, mainPc, mainRes,
           wTasks, attempts, recorded, webhook_secret, crashes,
           handlerVars, lifeVars >>

\* ---------------------------------------------------------------- helpers
RECURSIVE SetToSortedSeq(_)
SetToSortedSeq(S) ==
    IF S = {} THEN << >>
    ELSE LET m == CHOOSE x \in S : \A y \in S : x <= y
         IN  << m >> \o SetToSortedSeq(S \ {m})

\* A selection that, when it has to cut, keeps the newest rows.
LimitNewestMutant(S, n) ==
    LET s == SetToSortedSeq(S)
    IN  IF Len(s) <= n THEN s ELSE SubSeq(s, Len(s) - n + 1, Len(s))

\* ORDER BY created_at ASC LIMIT n over the row ids in S; rows are numbered in
\* the order of their insertion, which is the order of created_at.
Limit(S, n) ==
    LET s == SetToSortedSeq(S)
    IN  IF Len(s) <= n THEN s ELSE SubSeq(s, 1, n)

\* ------------------------------------------------------------ transformer
\* (usage_event.endTime - usage_event.startTime).total_seconds(), in the unit
\* of the record's times: the difference as it comes, with its sign.
DurationSeconds(rec) == rec.end - rec.start

\* int(usage_event.startTime.timestamp())
UnixStart(rec) == rec.start \div 2

\* A transaction_id that also depends on a quantity field of the record.
TransactionIdWithQuantityMutant(rec) ==
    << "litellm", rec.id, UnixStart(rec), rec.total_tokens >>

\* convert_to_lago_event: transaction_id = litellm_<id>_<unixStartTime>
TransactionId(rec) == << "litellm", rec.id, UnixStart(rec) >>

\* convert_to_lago_event: the LagoUsageEvent built from the record and the
\* mapping; timestamp is the record's startTime, a datetime.
ConvertToLagoEvent(rec, cust) ==
    [ transaction_id |-> TransactionId(rec),
      external_customer_id |-> cust,
      code |-> "ai_usage",
      timestamp |-> [ type |-> "datetime", value |-> rec.start ],
      properties |-> [ total_tokens |-> rec.total_tokens,
                       duration_seconds |-> DurationSeconds(rec),
                       litellm_customer_id |-> rec.user,
                       request_id |-> rec.id ] ]

\* json.dumps(event.dict()) in queue_event: event.dict() keeps the datetime
\* object and json.dumps has no encoder for it, so the call raises TypeError
\* before the INSERT is sent.
JsonDumpsRaises(event) == event.timestamp.type = "datetime"

\* ------------------------------------------------------------- billing API
\* LagoClient.send_usage_event (main.py): True on status 200, False on every
\* other status; an exception of the transport is caught and gives False.
SendUsageEvent(response) == response = 200

\* EventProcessor.send_event_to_lago (worker.py): the same test.
SendEventToLago(response) == response = 200

\* ----------------------------------------------------------- verification
\* A verification that compares the header whether or not a secret is set.
VerifyAlwaysComparesMutant(secret, sig) == sig = "valid"

\* verify_webhook_signature (main.py): True when no secret is configured,
\* else the comparison of the header with the HMAC of the body.
VerifyWebhookSignature(secret, sig) ==
    IF ~secret THEN TRUE ELSE sig = "valid"

\* json.loads(body) raises on a body that is not JSON.
JsonLoadsRaises(payload) == payload = "not_json"

\* A validation that only looks for the required fields.
ValidationMissingOnlyMutant(payload) == payload = "missing_field"

\* LiteLLMUsageEvent(**payload) / UsageEvent(**payload) raises on a missing
\* or ill-typed required field.
ValidationRaises(payload) == payload \in {"missing_field", "ill_typed"}

\* The except clause around both endpoint bodies: "except Exception" catches
\* whatever was raised in the try, the HTTPException(401) included, and
\* raises HTTPException(status_code=400).
ExceptException(raised) == "400"

\* ------------------------------------------------------------ queue store
\* DatabaseManager.get_customer_mapping: the row only when is_active = true.
NoMapping == << >>

\* A lookup without the test of is_active.
GetCustomerMappingAnyRowMutant(user) ==
    IF mapping[user] # "none" THEN << "lago", user >> ELSE NoMapping

GetCustomerMapping(user) ==
    IF mapping[user] = "active" THEN << "lago", user >> ELSE NoMapping

\* Logical schema of event_queue: transaction_id is UNIQUE, so an INSERT of
\* a transaction_id already stored raises.
UniqueViolation(q, tx) == \E i \in DOMAIN q : q[i].transaction_id = tx

\* The row DatabaseManager.queue_event inserts (status 'pending', the other
\* columns at their defaults).
NewRow(event, user) ==
    [ transaction_id |-> event.transaction_id,
      external_customer_id |-> event.external_customer_id,
      event_data |-> event, customer_mapping_id |-> user,
      status |-> "pending", retry_count |-> 0,
      processed_at |-> NULL, last_retry_at |-> NULL,
      error_message |-> NoError ]

\* update_event_status counting only the failed attempts.
MainUpdateRowCompletedOnlyMutant(row, status, err) ==
    [ row EXCEPT !.status = status, !.processed_at = Written,
                 !.error_message = err,
                 !.retry_count = IF status = "completed" THEN @ ELSE @ + 1 ]

\* DatabaseManager.update_event_status (main.py): one UPDATE ... WHERE id.
MainUpdateRow(row, status, err) ==
    [ row EXCEPT !.status = status, !.processed_at = Written,
                 !.error_message = err, !.retry_count = @ + 1 ]

\* An update that also resets the quantity of the stored payload.
WorkerUpdateRowOverwritesMutant(row, status, err) ==
    [ row EXCEPT !.status = status, !.last_retry_at = 0,
                 !.event_data.properties.total_tokens = 0,
                 !.error_message = err, !.retry_count = @ + 1 ]

\* EventProcessor.update_event_status (worker.py): one UPDATE ... WHERE id.
WorkerUpdateRow(row, status, err) ==
    [ row EXCEPT !.status = status,
                 !.processed_at = IF status = "completed" THEN Written ELSE @,
                 !.last_retry_at = 0,
                 !.error_message = err, !.retry_count = @ + 1 ]

\* A selection that returns the pending rows only.
MainDuePendingOnlyMutant(row) == row.status = "pending"

\* WHERE clause of DatabaseManager.get_pending_events (main.py).
MainDue(row) ==
    \/ row.status = "pending"
    \/ row.status = "failed" /\ row.retry_count < MaxRetries

\* WHERE clause of EventProcessor.get_pending_events (worker.py); a NULL
\* last_retry_at makes the comparison NULL, which selects nothing.
WorkerDue(row) ==
    \/ row.status = "pending"
    \/ /\ row.status = "failed"
       /\ row.retry_count < MaxRetries
       /\ row.last_retry_at # NULL
       /\ row.last_retry_at > RetryDelay

\* The rows a selection returns: id and the retry_count read.
Snapshot(q, ids) == [ k \in DOMAIN ids |-> [ id |-> ids[k], rc |-> q[ids[k]].retry_count ] ]

\* The rows a selection of event_queue returns: id, the retry_count read and
\* event_data, with the transaction_id and external_customer_id it holds.
EventSnapshot(q, ids) ==
    [ k \in DOMAIN ids |-> [ id |-> ids[k], rc |-> q[ids[k]].retry_count,
                             event |-> q[ids[k]].event_data ] ]

MainGetPendingEvents(q) ==
    EventSnapshot(q, Limit({ i \in DOMAIN q : MainDue(q[i]) }, BatchSize))

WorkerGetPendingEvents(q) ==
    EventSnapshot(q, Limit({ i \in DOMAIN q : WorkerDue(q[i]) }, BatchSize))

\* An entry that exhausted its retry budget.
Dead(row) == row.status = "failed" /\ row.retry_count >= MaxRetries
Terminal(row) == row.status = "completed" \/ Dead(row)

\* ------------------------------------------------------------------- Init
\* No billing event built yet.
NoEvent == [ transaction_id |-> << >>, external_customer_id |-> NoMapping,
            properties |-> << >> ]
NoRec == [ id |-> 0, start |-> 0, end |-> 0, user |-> "none",
           total_tokens |-> 0 ]
NoTask == [ svc |-> "none", sig |-> "none", payload |-> "none",
            resp |-> "none", rec |-> NoRec, event |-> NoEvent,
            pc |-> "idle", eid |-> 0,
            res |-> FALSE, http |-> NULL, out |-> "none" ]

\* The service has started: empty queue, no request yet, both dispatchers
\* idle.  The mapping table is as the provisioning left it.
InitWith(n, secrets) ==
    /\ webhook_secret \in secrets
    /\ crashes = 0
    /\ running = TRUE
    /\ closed = FALSE
    /\ exited = FALSE
    /\ exceptions = 0
    /\ webhook_events = << >>
    /\ retryBatch = << >>
    /\ retryPc = "sleep"
    /\ retryRes = FALSE
    /\ delivered = << >>
    /\ queue = << >>
    /\ mapping \in [ Users -> {"none", "active", "inactive"} ]
    /\ req = [ r \in 1..n |-> NoTask ]
    /\ nreq = 0
    /\ mainBatch = << >>
    /\ mainPc = "sleep"
    /\ mainRes = FALSE
    /\ wTasks = << >>
    /\ attempts = << >>
    /\ recorded = << >>

Init == InitWith(MaxIngest, {TRUE})

\* ------------------------------------------------------------ environment
\* The database clock advances by one tick: every timestamp of event_queue
\* ages.
Tick ==
    /\ queue' = [ i \in DOMAIN queue |->
                    [ queue[i] EXCEPT !.last_retry_at = Age(@),
                                      !.processed_at = Age(@) ] ]
    /\ queue' # queue
    /\ UNCHANGED << lifeVars, handlerVars, webhook_secret, crashes,
                    mapping, req, nreq, mainBatch, mainPc, mainRes,
                    wTasks, attempts, recorded >>

\* POST /customers/mapping -> DatabaseManager.create_customer_mapping:
\* upsert of the mapping with the is_active the caller gives.
AdminUpsert(u, active) ==
    /\ mapping' = [ mapping EXCEPT ![u] = IF active THEN "active" ELSE "inactive" ]
    /\ mapping' # mapping
    /\ UNCHANGED << lifeVars, handlerVars, webhook_secret, crashes,
                    queue, req, nreq, mainBatch, mainPc, mainRes,
                    wTasks, attempts, recorded >>

\* ---------------------------------------------------------------- ingress
\* handle_litellm_webhook: inside one try, verify the signature (raise
\* HTTPException 401), json.loads the body, build the LiteLLMUsageEvent, add
\* the background task and answer "accepted"; whatever was raised goes to
\* the except clause.
HandleWebhook(rec, sig, payload) ==
    /\ nreq < Len(req)
    /\ nreq' = nreq + 1
    /\ LET raised == IF ~VerifyWebhookSignature(webhook_secret, sig) THEN "401"
                     ELSE IF JsonLoadsRaises(payload) THEN "JSONDecodeError"
                     ELSE IF ValidationRaises(payload) THEN "ValidationError"
                     ELSE "none"
           seen == [ NoTask EXCEPT !.svc = "integration", !.sig = sig,
                                   !.payload = payload ]
       IN  req' = [ req EXCEPT ![nreq + 1] =
                  IF raised # "none"
                  THEN [ seen EXCEPT !.resp = ExceptException(raised) ]
                  ELSE [ seen EXCEPT !.resp = "accepted", !.rec = rec,
                                     !.pc = "scheduled" ] ]
    /\ UNCHANGED << lifeVars, handlerVars, webhook_secret, crashes,
                    queue, mapping, mainBatch, mainPc, mainRes,
                    wTasks, attempts, recorded >>

\* process_usage_event up to the insert: get_customer_mapping, then
\* convert_to_lago_event and queue_event.  Every exception is caught by the
\* function's except clause, which logs and returns False.
\*   storeOK = FALSE: the store raises (unavailable).
\*   serialized = FALSE: queue_event as written, json.dumps raising on the
\*     event's datetime.  serialized = TRUE is queue_event with a payload
\*     that serialises, the case every statement about queue entries is
\*     about; the model keeps both.
BgEnqueue(r, storeOK, serialized) ==
    /\ req[r].pc = "scheduled"
    /\ req[r].svc = "integration"
    /\ LET rec   == req[r].rec
           cust  == GetCustomerMapping(rec.user)
           event == ConvertToLagoEvent(rec, cust)
       IN  IF ~storeOK
           THEN /\ req' = [ req EXCEPT ![r].pc = "done", ![r].out = "store_error" ]
                /\ UNCHANGED << queue, attempts, recorded >>
           ELSE IF cust = NoMapping
           THEN /\ req' = [ req EXCEPT ![r].pc = "done", ![r].out = "no_mapping" ]
                /\ UNCHANGED << queue, attempts, recorded >>
           ELSE IF JsonDumpsRaises(event) /\ ~serialized
           THEN /\ req' = [ req EXCEPT ![r].pc = "done", ![r].out = "type_error" ]
                /\ UNCHANGED << queue, attempts, recorded >>
           ELSE IF UniqueViolation(queue, event.transaction_id)
           THEN /\ req' = [ req EXCEPT ![r].pc = "done", ![r].out = "duplicate" ]
                /\ UNCHANGED << queue, attempts, recorded >>
           ELSE /\ queue' = Append(queue, NewRow(event, rec.user))
                /\ attempts' = Append(attempts, 0)
                /\ recorded' = Append(recorded, 0)
                /\ req' = [ req EXCEPT ![r].pc = "send", ![r].event = event,
                                       ![r].eid = Len(queue) + 1 ]
    /\ UNCHANGED << lifeVars, handlerVars, webhook_secret, crashes,
                    mapping, nreq, mainBatch, mainPc, mainRes, wTasks >>

\* process_usage_event: lago_client.send_usage_event returns.
BgSend(r, response) ==
    /\ req[r].pc = "send"
    /\ req[r].svc = "integration"
    /\ req' = [ req EXCEPT ![r].pc = "update", ![r].http = response,
                           ![r].res = SendUsageEvent(response) ]
    /\ attempts' = [ attempts EXCEPT ![req[r].eid] = @ + 1 ]
    /\ UNCHANGED << lifeVars, handlerVars, webhook_secret, crashes,
                    queue, mapping, nreq, mainBatch, mainPc, mainRes,
                    wTasks, recorded >>

\* process_usage_event: the status update after the inline attempt.
BgUpdate(r) ==
    /\ req[r].pc = "update"
    /\ req[r].svc = "integration"
    /\ LET e == req[r].eid
       IN  /\ queue' = [ queue EXCEPT ![e] =
                 IF req[r].res
                 THEN MainUpdateRow(@, "completed", NoError)
                 ELSE MainUpdateRow(@, "failed", << "Failed to send to Lago" >>) ]
           /\ recorded' = [ recorded EXCEPT ![e] = @ + 1 ]
    /\ req' = [ req EXCEPT ![r].pc = "done", ![r].http = NULL,
                           ![r].out = IF req[r].res THEN "sent" ELSE "failed" ]
    /\ UNCHANGED << lifeVars, handlerVars, webhook_secret, crashes,
                    mapping, nreq, mainBatch, mainPc, mainRes, wTasks,
                    attempts >>

\* ------------------------------------------- main.py background dispatcher
\* process_queued_events: after the sleep, get_pending_events; the for loop
\* then works through the rows read, one after the other.
MainSelect ==
    /\ mainPc = "sleep"
    /\ LET b == MainGetPendingEvents(queue)
       IN  /\ mainBatch' = b
           /\ mainPc' = IF b = << >> THEN "sleep" ELSE "send"
    /\ UNCHANGED << lifeVars, handlerVars, webhook_secret, crashes,
                    queue, mapping, req, nreq, mainRes, wTasks,
                    attempts, recorded >>

\* lago_client.send_usage_event for the row at the head of the batch.
MainSend(response) ==
    /\ mainPc = "send"
    /\ mainRes' = SendUsageEvent(response)
    /\ mainPc' = "update"
    /\ attempts' = [ attempts EXCEPT ![Head(mainBatch).id] = @ + 1 ]
    /\ UNCHANGED << lifeVars, handlerVars, webhook_secret, crashes,
                    queue, mapping, req, nreq, mainBatch, wTasks,
                    recorded >>

\* The status the loop writes after a failed send: decided from the
\* retry_count read by the selection, plus one.
MainFailStatus(rc) ==
    IF rc + 1 >= MaxRetries THEN "failed" ELSE "pending"

MainFailError(rc) ==
    IF rc + 1 >= MaxRetries THEN << "Max retries exceeded", MaxRetries >>
                            ELSE << "Retry", rc + 1 >>

\* The status update of the row at the head of the batch; the loop then goes
\* on with the next row, or back to sleep.
MainUpdate ==
    /\ mainPc = "update"
    /\ LET h == Head(mainBatch)
       IN  /\ queue' = [ queue EXCEPT ![h.id] =
                 IF mainRes
                 THEN MainUpdateRow(@, "completed", NoError)
                 ELSE MainUpdateRow(@, MainFailStatus(h.rc), MainFailError(h.rc)) ]
           /\ recorded' = [ recorded EXCEPT ![h.id] = @ + 1 ]
    /\ mainBatch' = Tail(mainBatch)
    /\ mainPc' = IF Tail(mainBatch) = << >> THEN "sleep" ELSE "send"
    /\ mainRes' = FALSE
    /\ UNCHANGED << lifeVars, handlerVars, webhook_secret, crashes,
                    mapping, req, nreq, wTasks, attempts >>

\* ------------------------------------------------- worker.py dispatcher
\* A loop that goes on whatever the flag says.
LoopConditionAlwaysMutant(r) == TRUE

\* while self.running: the test run_processing_loop makes before each cycle.
LoopCondition(r) == r

\* run_processing_loop: get_pending_events, then process_batch creates one
\* task per row read; each task first waits for the semaphore.  The sleep
\* that ends a cycle, retry_delay or 10 seconds after an exception, is part
\* of the idle position wTasks = << >>.
WorkerSelect ==
    /\ wTasks = << >>
    /\ LoopCondition(running)
    /\ LET b == WorkerGetPendingEvents(queue)
       IN  /\ b # << >>
           /\ wTasks' = [ k \in DOMAIN b |->
                            [ id |-> b[k].id, rc |-> b[k].rc,
                              event |-> b[k].event, pc |-> "wait",
                              res |-> FALSE, http |-> NULL ] ]
    /\ UNCHANGED << lifeVars, handlerVars, webhook_secret, crashes,
                    queue, mapping, req, nreq, mainBatch, mainPc,
                    mainRes, attempts, recorded >>

\* Tasks inside "async with semaphore".
Holding == { k \in DOMAIN wTasks : wTasks[k].pc \in {"send", "update"} }

\* A semaphore that lets one task too many in.
SemaphoreFreeOffByOneMutant(held) == held <= WorkerConcurrency

\* asyncio.Semaphore(worker_concurrency): acquire succeeds while fewer than
\* worker_concurrency tasks hold it.
SemaphoreFree(held) == held < WorkerConcurrency

\* process_with_semaphore: the task enters the semaphore and process_event
\* starts its call to Lago.
WorkerAcquire(k) ==
    /\ k \in DOMAIN wTasks
    /\ wTasks[k].pc = "wait"
    /\ SemaphoreFree(Cardinality(Holding))
    /\ wTasks' = [ wTasks EXCEPT ![k].pc = "send" ]
    /\ UNCHANGED << lifeVars, handlerVars, webhook_secret, crashes,
                    queue, mapping, req, nreq, mainBatch, mainPc,
                    mainRes, attempts, recorded >>

\* send_event_to_lago returns.
WorkerSend(k, response) ==
    /\ k \in DOMAIN wTasks
    /\ wTasks[k].pc = "send"
    /\ ~closed
    /\ wTasks' = [ wTasks EXCEPT ![k].pc = "update", ![k].http = response,
                                 ![k].res = SendEventToLago(response) ]
    /\ attempts' = [ attempts EXCEPT ![wTasks[k].id] = @ + 1 ]
    /\ UNCHANGED << lifeVars, handlerVars, webhook_secret, crashes,
                    queue, mapping, req, nreq, mainBatch, mainPc,
                    mainRes, recorded >>

\* The status process_event writes after a failed send: decided from the
\* retry_count read by the selection.
WorkerFailStatus(rc) ==
    IF rc >= MaxRetries THEN "failed" ELSE "pending"

WorkerFailError(rc) ==
    IF rc >= MaxRetries THEN << "Max retries exceeded", MaxRetries >>
                        ELSE << "Retry", rc + 1 >>

\* process_event: the status update; the task then leaves the semaphore.
WorkerUpdate(k) ==
    /\ k \in DOMAIN wTasks
    /\ wTasks[k].pc = "update"
    /\ ~closed
    /\ LET t == wTasks[k]
       IN  /\ queue' = [ queue EXCEPT ![t.id] =
                 IF t.res
                 THEN WorkerUpdateRow(@, "completed", NoError)
                 ELSE WorkerUpdateRow(@, WorkerFailStatus(t.rc), WorkerFailError(t.rc)) ]
           /\ recorded' = [ recorded EXCEPT ![t.id] = @ + 1 ]
    /\ wTasks' = [ wTasks EXCEPT ![k].pc = "done", ![k].http = NULL ]
    /\ UNCHANGED << lifeVars, handlerVars, webhook_secret, crashes,
                    mapping, req, nreq, mainBatch, mainPc, mainRes,
                    attempts >>

\* asyncio.gather returns once every task is done; the loop sleeps and the
\* next cycle may select.
WorkerCycleEnd ==
    /\ wTasks # << >>
    /\ \A k \in DOMAIN wTasks : wTasks[k].pc = "done"
    /\ wTasks' = << >>
    /\ UNCHANGED << lifeVars, handlerVars, webhook_secret, crashes,
                    queue, mapping, req, nreq, mainBatch, mainPc,
                    mainRes, attempts, recorded >>

\* ------------------------------------------- exceptions and shutdown
\* A sweep that gives up its batch at the first exception.
ExceptInnerAbortMutant(batch) == << >>

\* The except clause inside the for loop of process_queued_events: the
\* exception is logged and the loop goes on with the rows after this one.
ExceptInner(batch) == Tail(batch)

\* process_queued_events: an exception inside the inner try, raised by
\* LagoUsageEvent(**json.loads(event_data)) before the send or by
\* update_event_status after it.  Nothing is written for the row.
MainRaise ==
    /\ mainPc \in {"send", "update"}
    /\ exceptions < MaxExceptions
    /\ exceptions' = exceptions + 1
    /\ mainBatch' = ExceptInner(mainBatch)
    /\ mainPc' = IF mainBatch' = << >> THEN "sleep" ELSE "send"
    /\ mainRes' = FALSE
    /\ UNCHANGED << handlerVars, running, closed, exited, webhook_secret,
                    crashes, queue, mapping, req, nreq, wTasks, attempts,
                    recorded >>

\* process_event: update_event_status raises (the pool is closed, or the
\* database fails) and the except clause calls update_event_status once
\* more, with the status the retry_count read decides and the exception as
\* error_message.  When that call raises again the task ends with the
\* exception, which asyncio.gather(return_exceptions=True) collects.
WorkerUpdateRaises(k, again) ==
    /\ k \in DOMAIN wTasks
    /\ wTasks[k].pc = "update"
    /\ closed => again
    /\ closed \/ exceptions < MaxExceptions
    /\ exceptions' = IF closed THEN exceptions ELSE exceptions + 1
    /\ LET t == wTasks[k]
       IN  IF again
           THEN UNCHANGED << queue, recorded >>
           ELSE /\ queue' = [ queue EXCEPT ![t.id] =
                      WorkerUpdateRow(@, WorkerFailStatus(t.rc), << "exception" >>) ]
                /\ recorded' = [ recorded EXCEPT ![t.id] = @ + 1 ]
    /\ wTasks' = [ wTasks EXCEPT ![k].pc = "done", ![k].http = NULL,
                                 ![k].res = FALSE ]
    /\ UNCHANGED << handlerVars, running, closed, exited, webhook_secret,
                    crashes, mapping, req, nreq, mainBatch, mainPc, mainRes,
                    attempts >>

\* send_event_to_lago once the HTTP session is closed: the post raises, the
\* function's except clause returns False, no call reaches the billing API.
WorkerSendClosed(k) ==
    /\ k \in DOMAIN wTasks
    /\ wTasks[k].pc = "send"
    /\ closed
    /\ wTasks' = [ wTasks EXCEPT ![k].pc = "update", ![k].http = NoResponse,
                                 ![k].res = FALSE ]
    /\ UNCHANGED << handlerVars, lifeVars, webhook_secret, crashes,
                    queue, mapping, req, nreq, mainBatch, mainPc,
                    mainRes, attempts, recorded >>

\* WorkerManager.stop, first statement: self.processor.stop() sets running
\* to False.  The signal handler starts it as a task of its own.
Stop ==
    /\ running
    /\ running' = FALSE
    /\ UNCHANGED << handlerVars, closed, exited, exceptions, webhook_secret,
                    crashes, queue, mapping, req, nreq, mainBatch, mainPc,
                    mainRes, wTasks, attempts, recorded >>

\* WorkerManager.stop, after the statistics task is cancelled:
\* await self.processor.close() closes the database pool and the HTTP
\* session.  Nothing in stop waits for run_processing_loop or its batch.
Close ==
    /\ ~running
    /\ ~closed
    /\ closed' = TRUE
    /\ UNCHANGED << handlerVars, running, exited, exceptions, webhook_secret,
                    crashes, queue, mapping, req, nreq, mainBatch, mainPc,
                    mainRes, wTasks, attempts, recorded >>

\* run_processing_loop returns: the cycle, its sleep included, is over and
\* the loop condition is false.
WorkerExit ==
    /\ wTasks = << >>
    /\ ~LoopCondition(running)
    /\ ~exited
    /\ exited' = TRUE
    /\ UNCHANGED << handlerVars, running, closed, exceptions, webhook_secret,
                    crashes, queue, mapping, req, nreq, mainBatch, mainPc,
                    mainRes, wTasks, attempts, recorded >>

\* ------------------------------------------------ webhook-handler.py
\* handle_usage_webhook: with a secret configured only the presence of the
\* X-Webhook-Signature header is tested; its value is compared with nothing.
HandlerSignaturePresent(secret, sig) == secret => sig # "missing"

\* A conversion whose transaction_id depends on the customer's organization.
HandlerConvertKeyedByCustomerMutant(rec, org) ==
    [ transaction_id |-> << "litellm", rec.id, UnixStart(rec), org >>,
      external_customer_id |-> org,
      code |-> "ai_usage",
      timestamp |-> [ type |-> "datetime", value |-> rec.start ],
      properties |-> [ total_tokens |-> rec.total_tokens,
                       duration_seconds |-> DurationSeconds(rec),
                       customer_id |-> rec.user,
                       request_id |-> rec.id ] ]

\* convert_to_lago_event (webhook-handler.py).
HandlerConvertToLagoEvent(rec, org) ==
    [ transaction_id |-> << "litellm", rec.id, UnixStart(rec) >>,
      external_customer_id |-> org,
      code |-> "ai_usage",
      timestamp |-> [ type |-> "datetime", value |-> rec.start ],
      properties |-> [ total_tokens |-> rec.total_tokens,
                       duration_seconds |-> DurationSeconds(rec),
                       customer_id |-> rec.user,
                       request_id |-> rec.id ] ]

\* What get_customer_config reads in customer_configs, a table this program
\* only reads: no active row, a row without lago_organization_id, a row
\* with one.
CustomerConfigs == {"none", "no_org", "ok"}

\* The row queue_webhook_event($1, $2, $3) inserts: a new pending event.
HandlerNewRow(event, user) ==
    [ event_type |-> "usage_event", customer_id |-> user, payload |-> event,
      status |-> "pending", retry_count |-> 0,
      processed_at |-> NULL, last_retry_at |-> NULL,
      error_message |-> NoError ]

\* DatabaseManager.update_webhook_status: status, processed_at and
\* error_message; retry_count is not among the columns set.
UpdateWebhookStatus(row, status, err) ==
    [ row EXCEPT !.status = status, !.processed_at = Written,
                 !.error_message = err ]

\* retry_failed_events: UPDATE webhook_events SET retry_count = $2,
\* last_retry_at = NOW() WHERE id = $1.
UpdateRetryCount(row, rc) ==
    [ row EXCEPT !.retry_count = rc, !.last_retry_at = Written ]

\* WHERE clause of get_pending_events (webhook-handler.py).
HandlerDue(row) ==
    \/ row.status = "pending"
    \/ row.status = "failed" /\ row.retry_count < MaxRetries

\* get_pending_events(limit = 100): more than the model ever holds.
HandlerGetPendingEvents(t) ==
    Snapshot(t, SetToSortedSeq({ i \in DOMAIN t : HandlerDue(t[i]) }))

\* handle_usage_webhook: inside one try, request.json(), the test of the
\* signature header (raise HTTPException 401), UsageEvent(**payload), add the
\* background task and answer "accepted"; whatever was raised goes to the
\* except clause.
HandleUsageWebhook(rec, sig, payload) ==
    /\ nreq < Len(req)
    /\ nreq' = nreq + 1
    /\ LET raised == IF JsonLoadsRaises(payload) THEN "JSONDecodeError"
                     ELSE IF ~HandlerSignaturePresent(webhook_secret, sig) THEN "401"
                     ELSE IF ValidationRaises(payload) THEN "ValidationError"
                     ELSE "none"
           seen == [ NoTask EXCEPT !.svc = "handler", !.sig = sig,
                                   !.payload = payload ]
       IN  req' = [ req EXCEPT ![nreq + 1] =
                  IF raised # "none"
                  THEN [ seen EXCEPT !.resp = ExceptException(raised) ]
                  ELSE [ seen EXCEPT !.resp = "accepted", !.rec = rec,
                                     !.pc = "scheduled" ] ]
    /\ UNCHANGED << lifeVars, handlerVars, webhook_secret, crashes,
                    queue, mapping, mainBatch, mainPc, mainRes,
                    wTasks, attempts, recorded >>

\* process_usage_event (webhook-handler.py) up to the insert:
\* get_customer_config, convert_to_lago_event, queue_webhook_event, whose
\* json.dumps(payload) meets the same datetime.  Every exception is caught
\* by the function's except clause.
HandlerBgEnqueue(r, config, storeOK, serialized) ==
    /\ req[r].pc = "scheduled"
    /\ req[r].svc = "handler"
    /\ LET rec   == req[r].rec
           event == HandlerConvertToLagoEvent(rec, << "org", rec.user >>)
       IN  IF ~storeOK
           THEN /\ req' = [ req EXCEPT ![r].pc = "done", ![r].out = "store_error" ]
                /\ UNCHANGED << webhook_events, delivered >>
           ELSE IF config # "ok"
           THEN /\ req' = [ req EXCEPT ![r].pc = "done", ![r].out = "no_mapping" ]
                /\ UNCHANGED << webhook_events, delivered >>
           ELSE IF JsonDumpsRaises(event) /\ ~serialized
           THEN /\ req' = [ req EXCEPT ![r].pc = "done", ![r].out = "type_error" ]
                /\ UNCHANGED << webhook_events, delivered >>
           ELSE /\ webhook_events' = Append(webhook_events, HandlerNewRow(event, rec.user))
                /\ delivered' = Append(delivered, 0)
                /\ req' = [ req EXCEPT ![r].pc = "send",
                                       ![r].eid = Len(webhook_events) + 1 ]
    /\ UNCHANGED << lifeVars, retryBatch, retryPc, retryRes, webhook_secret, crashes,
                    queue, mapping, nreq, mainBatch, mainPc, mainRes,
                    wTasks, attempts, recorded >>

\* LagoClient.send_usage_event (webhook-handler.py): True on status 200.
HandlerSendUsageEvent(response) == response = 200

\* process_usage_event (webhook-handler.py): the inline call returns.
HandlerBgSend(r, response) ==
    /\ req[r].pc = "send"
    /\ req[r].svc = "handler"
    /\ delivered[req[r].eid] < MaxDeliveries
    /\ req' = [ req EXCEPT ![r].pc = "update", ![r].http = response,
                           ![r].res = HandlerSendUsageEvent(response) ]
    /\ delivered' = [ delivered EXCEPT ![req[r].eid] = @ + 1 ]
    /\ UNCHANGED << lifeVars, webhook_events, retryBatch, retryPc, retryRes,
                    webhook_secret, crashes, queue, mapping, nreq,
                    mainBatch, mainPc, mainRes, wTasks, attempts, recorded >>

\* process_usage_event (webhook-handler.py): update_webhook_status.
HandlerBgUpdate(r) ==
    /\ req[r].pc = "update"
    /\ req[r].svc = "handler"
    /\ webhook_events' = [ webhook_events EXCEPT ![req[r].eid] =
          IF req[r].res
          THEN UpdateWebhookStatus(@, "completed", NoError)
          ELSE UpdateWebhookStatus(@, "failed", << "Failed to send to Lago" >>) ]
    /\ req' = [ req EXCEPT ![r].pc = "done", ![r].http = NULL,
                           ![r].out = IF req[r].res THEN "sent" ELSE "failed" ]
    /\ UNCHANGED << lifeVars, retryBatch, retryPc, retryRes, delivered,
                    webhook_secret, crashes, queue, mapping, nreq,
                    mainBatch, mainPc, mainRes, wTasks, attempts, recorded >>

\* retry_failed_events: after the sleep, get_pending_events; the for loop
\* works through the rows read.
RetrySelect ==
    /\ retryPc = "sleep"
    /\ LET b == HandlerGetPendingEvents(webhook_events)
       IN  /\ b # << >>
           /\ retryBatch' = b
           /\ retryPc' = "send"
    /\ UNCHANGED << lifeVars, webhook_events, retryRes, delivered,
                    webhook_secret, crashes, queue, mapping, req, nreq,
                    mainBatch, mainPc, mainRes, wTasks, attempts, recorded >>

\* retry_failed_events: lago_client.send_usage_event for the row at the head
\* of the batch.
RetrySend(response) ==
    /\ retryPc = "send"
    /\ delivered[Head(retryBatch).id] < MaxDeliveries
    /\ retryRes' = HandlerSendUsageEvent(response)
    /\ retryPc' = "update"
    /\ delivered' = [ delivered EXCEPT ![Head(retryBatch).id] = @ + 1 ]
    /\ UNCHANGED << lifeVars, webhook_events, retryBatch,
                    webhook_secret, crashes, queue, mapping, req, nreq,
                    mainBatch, mainPc, mainRes, wTasks, attempts, recorded >>

\* retry_failed_events: what follows the send.  Success: status completed.
\* Failure: with retry_count = read + 1, either update_webhook_status to
\* failed ("Max retries exceeded") or the UPDATE of retry_count alone.
RetryUpdate ==
    /\ retryPc = "update"
    /\ LET h  == Head(retryBatch)
           rc == h.rc + 1
       IN  webhook_events' = [ webhook_events EXCEPT ![h.id] =
             IF retryRes
             THEN UpdateWebhookStatus(@, "completed", NoError)
             ELSE IF rc >= MaxRetries
             THEN UpdateWebhookStatus(@, "failed", << "Max retries exceeded", MaxRetries >>)
             ELSE UpdateRetryCount(@, rc) ]
    /\ retryBatch' = Tail(retryBatch)
    /\ retryPc' = IF Tail(retryBatch) = << >> THEN "sleep" ELSE "send"
    /\ retryRes' = FALSE
    /\ UNCHANGED << lifeVars, delivered,
                    webhook_secret, crashes, queue, mapping, req, nreq,
                    mainBatch, mainPc, mainRes, wTasks, attempts, recorded >>

\* ---------------------------------------------------------------- crashes
\* Tasks of the integration service that have begun and not ended.
ServiceBusy ==
    \/ \E r \in DOMAIN req :
          req[r].svc = "integration" /\ req[r].pc \in {"scheduled", "send", "update"}
    \/ mainPc # "sleep"

\* The integration service dies and is started again (startup_event): its
\* background tasks and the sweep's local variables are gone, the tables
\* are as the last committed statement left them, process_queued_events
\* starts again at its sleep.
CrashService ==
    /\ crashes < MaxCrashes
    /\ ServiceBusy
    /\ crashes' = crashes + 1
    /\ req' = [ r \in DOMAIN req |->
                 IF req[r].svc = "integration"
                    /\ req[r].pc \in {"scheduled", "send", "update"}
                 THEN [ req[r] EXCEPT !.pc = "done", !.out = "crashed",
                                      !.res = FALSE, !.http = NULL ]
                 ELSE req[r] ]
    /\ mainBatch' = << >>
    /\ mainPc' = "sleep"
    /\ mainRes' = FALSE
    /\ UNCHANGED << lifeVars, handlerVars, webhook_secret, queue, mapping, nreq,
                    wTasks, attempts, recorded >>

\* The worker dies and is started again (WorkerManager.start): the tasks of
\* its batch are gone, run_processing_loop starts with a selection.
CrashWorker ==
    /\ crashes < MaxCrashes
    /\ wTasks # << >>
    /\ crashes' = crashes + 1
    /\ wTasks' = << >>
    /\ UNCHANGED << lifeVars, handlerVars, webhook_secret, queue, mapping, req, nreq,
                    mainBatch, mainPc, mainRes, attempts, recorded >>

\* ------------------------------------------------------------------- Next
HandleWebhookStep ==
    \E rec \in RecordSet, sig \in Signatures, payload \in Payloads :
        HandleWebhook(rec, sig, payload)
\* A validly signed record whose endTime lies before its startTime arrives,
\* at either endpoint.
HandleBackwardWebhookStep ==
    \E rec \in BackwardRecords : HandleWebhook(rec, "valid", "ok")
HandleBackwardUsageWebhookStep ==
    \E rec \in BackwardRecords : HandleUsageWebhook(rec, "valid", "ok")
\* A well-formed, validly signed usage record arrives.
HandleValidWebhookStep ==
    \E rec \in RecordSet : HandleWebhook(rec, "valid", "ok")
BgEnqueueStep ==
    \E r \in DOMAIN req, storeOK \in BOOLEAN, serialized \in BOOLEAN :
        BgEnqueue(r, storeOK, serialized)
BgSendStep == \E r \in DOMAIN req, response \in Outcomes : BgSend(r, response)
BgSendAnyStep ==
    \E r \in DOMAIN req, response \in Responses : BgSend(r, response)
BgUpdateStep == \E r \in DOMAIN req : BgUpdate(r)
AdminUpsertStep == \E u \in Users, active \in BOOLEAN : AdminUpsert(u, active)
MainSendStep == \E response \in Outcomes : MainSend(response)
WorkerAcquireStep == \E k \in DOMAIN wTasks : WorkerAcquire(k)
WorkerSendStep ==
    \E k \in DOMAIN wTasks, response \in Outcomes : WorkerSend(k, response)
WorkerSendAnyStep ==
    \E k \in DOMAIN wTasks, response \in Responses : WorkerSend(k, response)
WorkerUpdateStep == \E k \in DOMAIN wTasks : WorkerUpdate(k)

HandleUsageWebhookStep ==
    \E rec \in RecordSet, sig \in Signatures, payload \in Payloads :
        HandleUsageWebhook(rec, sig, payload)
HandlerBgEnqueueStep ==
    \E r \in DOMAIN req, config \in CustomerConfigs,
       storeOK \in BOOLEAN, serialized \in BOOLEAN :
        HandlerBgEnqueue(r, config, storeOK, serialized)
HandlerBgSendStep ==
    \E r \in DOMAIN req, response \in Responses : HandlerBgSend(r, response)
HandlerBgUpdateStep == \E r \in DOMAIN req : HandlerBgUpdate(r)
RetrySendStep == \E response \in Responses : RetrySend(response)

\* The integration service and the worker on one store, receiving usage
\* records that pass verification and validation, the billing API either
\* accepting (200) or refusing (500) a delivery.
Next ==
    \/ Tick
    \/ HandleValidWebhookStep
    \/ BgEnqueueStep
    \/ BgSendStep
    \/ BgUpdateStep
    \/ MainSelect
    \/ MainSendStep
    \/ MainUpdate
    \/ WorkerSelect
    \/ WorkerAcquireStep
    \/ WorkerSendStep
    \/ WorkerUpdateStep
    \/ WorkerCycleEnd

Spec == Init /\ [][Next]_vars

\* The ingress endpoint with its inline attempt and the administrative
\* upsert, no dispatcher sweeping.
InitIngress == InitWith(MaxRequests, BOOLEAN)

NextIngress ==
    \/ AdminUpsertStep
    \/ HandleWebhookStep
    \/ BgEnqueueStep
    \/ BgSendAnyStep
    \/ BgUpdateStep

SpecIngress == InitIngress /\ [][NextIngress]_vars

\* Both ingress endpoints, each with its inline attempt, under either
\* configuration of the webhook secret.
InitEndpoints == InitWith(MaxIngest, BOOLEAN)

NextEndpoints ==
    \/ HandleWebhookStep
    \/ HandleBackwardWebhookStep
    \/ HandleBackwardUsageWebhookStep
    \/ BgEnqueueStep
    \/ BgSendAnyStep
    \/ BgUpdateStep
    \/ HandleUsageWebhookStep
    \/ HandlerBgEnqueueStep
    \/ HandlerBgSendStep
    \/ HandlerBgUpdateStep

SpecEndpoints == InitEndpoints /\ [][NextEndpoints]_vars

\* webhook-handler.py alone: its endpoint, its inline attempt and its retry
\* loop.
InitHandler == InitWith(MaxIngest, BOOLEAN)

NextHandler ==
    \/ HandleUsageWebhookStep
    \/ HandlerBgEnqueueStep
    \/ HandlerBgSendStep
    \/ HandlerBgUpdateStep
    \/ RetrySelect
    \/ RetrySendStep
    \/ RetryUpdate

SpecHandler == InitHandler /\ [][NextHandler]_vars

\* The worker alone on a queue of entries that were enqueued and whose
\* inline attempt recorded nothing (the integration service stopped after
\* queue_event).
InitQueue(rows) ==
    /\ \E n \in 1..rows :
          queue = [ i \in 1..n |->
                      NewRow(ConvertToLagoEvent([ id |-> i, start |-> 2, end |-> 3,
                                                  user |-> "u1",
                                                  total_tokens |-> 10 ],
                                                << "lago", "u1" >>), "u1") ]
    /\ mapping = [ u \in Users |-> "active" ]
    /\ webhook_secret = TRUE
    /\ crashes = 0
    /\ running = TRUE
    /\ closed = FALSE
    /\ exited = FALSE
    /\ exceptions = 0
    /\ webhook_events = << >>
    /\ retryBatch = << >>
    /\ retryPc = "sleep"
    /\ retryRes = FALSE
    /\ delivered = << >>
    /\ req = << >>
    /\ nreq = 0
    /\ mainBatch = << >>
    /\ mainPc = "sleep"
    /\ mainRes = FALSE
    /\ wTasks = << >>
    /\ attempts = [ i \in DOMAIN queue |-> 0 ]
    /\ recorded = [ i \in DOMAIN queue |-> 0 ]

InitWorker == InitQueue(WorkerRows)

NextWorker ==
    \/ Tick
    \/ WorkerSelect
    \/ WorkerAcquireStep
    \/ WorkerSendAnyStep
    \/ WorkerUpdateStep
    \/ WorkerCycleEnd

SpecWorker == InitWorker /\ [][NextWorker]_vars

\* The pipeline under the assumptions of the at-least-once guarantee: the
\* store stays available, and every task and both dispatcher loops keep
\* being scheduled (the event loop runs every ready task; both loops wake
\* after each sleep).
BgEnqueueAvailable ==
    \E r \in DOMAIN req, serialized \in BOOLEAN : BgEnqueue(r, TRUE, serialized)

NextLive ==
    \/ Tick
    \/ HandleValidWebhookStep
    \/ BgEnqueueAvailable
    \/ BgSendStep
    \/ BgUpdateStep
    \/ MainSelect
    \/ MainSendStep
    \/ MainUpdate
    \/ WorkerSelect
    \/ WorkerAcquireStep
    \/ WorkerSendStep
    \/ WorkerUpdateStep
    \/ WorkerCycleEnd

Fairness ==
    /\ WF_vars(BgEnqueueAvailable)
    /\ WF_vars(BgSendStep)
    /\ WF_vars(BgUpdateStep)
    /\ WF_vars(MainSelect)
    /\ WF_vars(MainSendStep)
    /\ WF_vars(MainUpdate)
    /\ WF_vars(WorkerSelect)
    /\ WF_vars(WorkerAcquireStep)
    /\ WF_vars(WorkerSendStep)
    /\ WF_vars(WorkerUpdateStep)
    /\ WF_vars(WorkerCycleEnd)

SpecLive == Init /\ [][NextLive]_vars /\ Fairness

\* The two dispatchers on a queue of pending entries, where processing an
\* entry may raise: in the sweep of main.py before the send or at the status
\* update, in a task of the worker at the status update.  A cycle of one
\* dispatcher starts while the other is idle.
MainSelectAlone == wTasks = << >> /\ MainSelect
WorkerSelectAlone == mainPc = "sleep" /\ WorkerSelect
WorkerUpdateRaisesStep ==
    \E k \in DOMAIN wTasks, again \in BOOLEAN : WorkerUpdateRaises(k, again)

NextFaults ==
    \/ MainSelectAlone
    \/ MainSendStep
    \/ MainUpdate
    \/ MainRaise
    \/ WorkerSelectAlone
    \/ WorkerAcquireStep
    \/ WorkerSendStep
    \/ WorkerUpdateStep
    \/ WorkerUpdateRaisesStep
    \/ WorkerCycleEnd

FairnessFaults ==
    /\ WF_vars(MainSelectAlone)
    /\ WF_vars(MainSendStep)
    /\ WF_vars(MainUpdate)
    /\ WF_vars(WorkerSelectAlone)
    /\ WF_vars(WorkerAcquireStep)
    /\ WF_vars(WorkerSendStep)
    /\ WF_vars(WorkerUpdateStep)
    /\ WF_vars(WorkerCycleEnd)

\* The queue holds at most one batch.
InitFaults == InitQueue(BatchSize)

SpecFaults == InitFaults /\ [][NextFaults]_vars /\ FairnessFaults

\* The worker, which WorkerManager.stop may stop at any moment: the flag
\* first, the close of the pool and of the session some time later.
WorkerSendClosedStep == \E k \in DOMAIN wTasks : WorkerSendClosed(k)
WorkerUpdateClosedStep ==
    \E k \in DOMAIN wTasks : closed /\ WorkerUpdateRaises(k, TRUE)

NextStop ==
    \/ WorkerSelect
    \/ WorkerAcquireStep
    \/ WorkerSendStep
    \/ WorkerSendClosedStep
    \/ WorkerUpdateStep
    \/ WorkerUpdateClosedStep
    \/ WorkerCycleEnd
    \/ Stop
    \/ Close
    \/ WorkerExit

FairnessStop ==
    /\ WF_vars(WorkerSelect)
    /\ WF_vars(WorkerAcquireStep)
    /\ WF_vars(WorkerSendStep)
    /\ WF_vars(WorkerSendClosedStep)
    /\ WF_vars(WorkerUpdateStep)
    /\ WF_vars(WorkerUpdateClosedStep)
    /\ WF_vars(WorkerCycleEnd)
    /\ WF_vars(WorkerExit)

SpecStop == InitWorker /\ [][NextStop]_vars /\ FairnessStop

\* The same pipeline where either process may crash and restart, at any
\* point, MaxCrashes times in all.
NextCrash ==
    \/ Tick
    \/ HandleValidWebhookStep
    \/ BgEnqueueAvailable
    \/ BgSendStep
    \/ BgUpdateStep
    \/ MainSelect
    \/ MainSendStep
    \/ MainUpdate
    \/ WorkerSelect
    \/ WorkerAcquireStep
    \/ WorkerSendStep
    \/ WorkerUpdateStep
    \/ WorkerCycleEnd
    \/ CrashService
    \/ CrashWorker

SpecCrash == Init /\ [][NextCrash]_vars /\ Fairness

\* ----------------------------------------------------------------- claims
\* The queue entry of a request's record.
EntryOf(r) ==
    { i \in DOMAIN queue : queue[i].transaction_id = TransactionId(req[r].rec) }

\* Delivery attempts in flight on row i: calls to Lago begun and not returned.
InFlight(i) ==
    Cardinality({ r \in DOMAIN req : req[r].pc = "send" /\ req[r].eid = i })
    + (IF mainPc = "send" /\ Head(mainBatch).id = i THEN 1 ELSE 0)
    + Cardinality({ k \in DOMAIN wTasks : wTasks[k].pc = "send" /\ wTasks[k].id = i })

\* Attempts on row i that returned and whose status update is still to run.
PendingUpdates(i) ==
    Cardinality({ r \in DOMAIN req : req[r].pc = "update" /\ req[r].eid = i })
    + (IF mainPc = "update" /\ Head(mainBatch).id = i THEN 1 ELSE 0)
    + Cardinality({ k \in DOMAIN wTasks : wTasks[k].pc = "update" /\ wTasks[k].id = i })

\* C1 (as claimed): every accepted usage record whose customer has an active
\* mapping has its queue entry eventually completed or dead; it never
\* vanishes and never stays non-terminal forever.
CE_C1 ==
    \A r \in 1..MaxIngest :
        (req[r].resp = "accepted" /\ mapping[req[r].rec.user] = "active")
            ~> (\E i \in EntryOf(r) : Terminal(queue[i]))

\* C2 (as claimed): once an entry is completed, no step changes its status,
\* retry_count, timestamps or error_message.
CE_C2 ==
    [][ \A i \in DOMAIN queue :
          queue[i].status = "completed" =>
              /\ queue'[i].status = queue[i].status
              /\ queue'[i].retry_count = queue[i].retry_count
              /\ queue'[i].error_message = queue[i].error_message
              /\ queue'[i].processed_at \in
                    { queue[i].processed_at, Age(queue[i].processed_at) }
              /\ queue'[i].last_retry_at \in
                    { queue[i].last_retry_at, Age(queue[i].last_retry_at) } ]_vars

\* C3 (as claimed): an entry whose retry_count >= max_retries is returned by
\* no selection.
CE_C3 ==
    \A i \in DOMAIN queue :
        queue[i].retry_count >= MaxRetries =>
            ~WorkerDue(queue[i]) /\ ~MainDue(queue[i])

\* C4 (as claimed): an entry whose deliveries fail is dead right after the
\* max_retries-th recorded failure, and no further attempt is made: at most
\* max_retries calls reach the billing API.
CE_C4 ==
    \A i \in DOMAIN queue :
        /\ attempts[i] <= MaxRetries
        /\ (recorded[i] >= MaxRetries /\ queue[i].status # "completed")
              => Dead(queue[i])

\* C5: retry_count never decreases, every status update raises it by exactly
\* one, and it equals the number of delivery attempts whose outcome was
\* recorded (the attempts made less those whose update is still to run).
Thm_C5 ==
    /\ [](\A i \in DOMAIN queue :
            /\ queue[i].retry_count = recorded[i]
            /\ queue[i].retry_count = attempts[i] - PendingUpdates(i))
    /\ [][ \A i \in DOMAIN queue :
            /\ queue'[i].retry_count >= queue[i].retry_count
            /\ queue'[i].retry_count - queue[i].retry_count
                  = recorded'[i] - recorded[i]
            /\ recorded'[i] - recorded[i] \in {0, 1} ]_vars

\* C5 witness: an entry whose outcome was recorded by the inline path and by
\* both dispatchers, one update each.
Wit_C5 ==
    \E i \in DOMAIN queue :
        /\ queue[i].retry_count >= 3
        /\ queue[i].last_retry_at # NULL
        /\ \E r \in DOMAIN req : req[r].pc = "done" /\ req[r].eid = i
        /\ mainPc = "sleep" /\ wTasks = << >>

\* C6 (as claimed): never two delivery attempts in flight on one entry.
CE_C6 == \A i \in DOMAIN queue : InFlight(i) <= 1

\* C7: during a worker cycle at most worker_concurrency calls to the billing
\* API are in flight.
Thm_C7 ==
    Cardinality({ k \in DOMAIN wTasks : wTasks[k].pc = "send" }) <= WorkerConcurrency

\* C7 witness: the semaphore is exhausted while a task of the batch waits.
Wit_C7 ==
    /\ Cardinality({ k \in DOMAIN wTasks : wTasks[k].pc = "send" }) = WorkerConcurrency
    /\ \E k \in DOMAIN wTasks : wTasks[k].pc = "wait"

CE_C9 ==
    \A r \in DOMAIN req :
        req[r].resp = "accepted" => EntryOf(r) # {}

\* C10 (as claimed): a request whose queue write failed on the store was not
\* answered "accepted".
CE_C10 ==
    \A r \in DOMAIN req :
        req[r].out = "store_error" => req[r].resp # "accepted"

\* A delivery attempt on row i reached the billing API and the process died
\* before recording its outcome.
Unrecorded(i) == attempts[i] > recorded[i] + PendingUpdates(i)

\* C11: a crash changes no row of the queue; every entry of the queue,
\* whatever crashes follow its insert (also one between the call to the
\* billing API and the status update), keeps a status of pending, failed or
\* completed and eventually is completed or dead.
Thm_C11 ==
    /\ [][ crashes' # crashes => queue' = queue ]_vars
    /\ [](\A i \in DOMAIN queue :
             queue[i].status \in {"pending", "failed", "completed"})
    /\ \A i \in 1..MaxIngest :
          (i \in DOMAIN queue) ~> (i \in DOMAIN queue /\ Terminal(queue[i]))

\* C11 witness: the process died between a call to the billing API and its
\* status update, and the entry ended completed or dead all the same.
Wit_C11 ==
    \E i \in DOMAIN queue :
        /\ crashes > 0
        /\ Unrecorded(i)
        /\ Terminal(queue[i])

\* C12 (as claimed): with a webhook secret configured, a request without the
\* signature header is answered 401, not the 400 of a validation failure,
\* and no background task or queue entry comes of it.
CE_C12 ==
    \A r \in DOMAIN req :
        (webhook_secret /\ req[r].sig = "missing" /\ req[r].payload = "ok")
            => (req[r].resp = "401" /\ req[r].pc = "idle" /\ req[r].eid = 0)

\* C13: with no webhook secret configured the verification is true of every
\* signature value, the missing header included, and both endpoints accept
\* every well-formed usage record whatever its signature.
Thm_C13 ==
    /\ \A sig \in Signatures : VerifyWebhookSignature(FALSE, sig)
    /\ \A r \in DOMAIN req :
          (~webhook_secret /\ req[r].payload = "ok")
              => (req[r].resp = "accepted" /\ req[r].pc # "idle")

\* C13 witness: no secret configured, a well-formed record without signature
\* header was accepted by the integration service.
Wit_C13 ==
    \E r \in DOMAIN req :
        /\ ~webhook_secret
        /\ req[r].svc = "integration"
        /\ req[r].sig = "missing"
        /\ req[r].payload = "ok"
        /\ req[r].resp = "accepted"

\* C14 (as claimed): a validly signed, well-formed record whose customer has
\* no active mapping is not answered "accepted".
CE_C14 ==
    \A r \in DOMAIN req :
        req[r].out = "no_mapping" => req[r].resp # "accepted"

\* C15: when the customer of a record has no mapping or an inactive one at
\* the time process_usage_event looks it up, the task ends there: no queue
\* entry is created and no call to the billing API is made, whatever the
\* upserts did to the mapping table before.
Thm_C15 ==
    /\ [][ \A r \in DOMAIN req :
             ( /\ req[r].pc = "scheduled"
               /\ req'[r].pc # "scheduled"
               /\ mapping[req[r].rec.user] # "active" )
             => ( /\ queue' = queue
                  /\ attempts' = attempts
                  /\ req'[r].pc = "done"
                  /\ req'[r].eid = 0 ) ]_vars
    /\ [](\A r \in DOMAIN req :
             req[r].out = "no_mapping" => req[r].pc = "done" /\ req[r].eid = 0)

\* C15 witness: a record was enqueued while its customer's mapping was
\* active, an upsert set is_active to false, and the next record of the
\* customer was dropped without entry.
Wit_C15 ==
    \E r1, r2 \in DOMAIN req :
        /\ req[r1].eid > 0
        /\ req[r2].out = "no_mapping"
        /\ req[r1].rec.user = req[r2].rec.user
        /\ mapping[req[r2].rec.user] = "inactive"
        /\ Len(queue) = 1
        /\ attempts[1] <= 1

\* C16: a request whose body is not JSON or lacks or mistypes a required
\* field is answered 400 and schedules nothing; every queue entry, hence
\* every call to the billing API, comes from a request with a valid body.
Thm_C16 ==
    /\ \A r \in DOMAIN req :
          req[r].payload \in {"not_json", "missing_field", "ill_typed"}
              => ( /\ req[r].resp = "400"
                   /\ req[r].pc = "idle"
                   /\ req[r].eid = 0
                   /\ req[r].out = "none" )
    /\ \A i \in DOMAIN queue :
          \E r \in DOMAIN req : req[r].eid = i /\ req[r].payload = "ok"

\* C16 witness: every request had a malformed body, one of them an
\* ill-typed field under a valid signature; all were answered 400 and the
\* queue is empty.
Wit_C16 ==
    /\ nreq = Len(req)
    /\ \A r \in DOMAIN req : req[r].payload \notin {"ok", "none"} /\ req[r].resp = "400"
    /\ \E r \in DOMAIN req : req[r].payload = "ill_typed" /\ req[r].sig = "valid"
    /\ queue = << >>

\* C17 (as claimed): the billing client reports success exactly for the 2xx
\* statuses; every other status and every transport error is a failure,
\* returned as a value.
CE_C17 ==
    \A r \in DOMAIN req :
        req[r].pc = "update" => (req[r].res <=> req[r].http \in 200..299)

\* The key the specification names: litellm_<id>_<unixStartTime>.
LitellmKey(rec) == << "litellm", rec.id, rec.start \div 2 >>

\* The idempotency key stored for the record of request r.
StoredKey(r) ==
    IF req[r].svc = "integration"
    THEN queue[req[r].eid].transaction_id
    ELSE webhook_events[req[r].eid].payload.transaction_id

\* C18: in both services the idempotency key of a record is
\* litellm_<id>_<unixStartTime>, a function of its id and start time alone:
\* records that agree on the two get the same key whatever their other
\* fields and whatever the customer mapping.
Thm_C18 ==
    /\ \A r \in DOMAIN req :
          req[r].eid > 0 => StoredKey(r) = LitellmKey(req[r].rec)
    /\ \A r1, r2 \in DOMAIN req :
          ( /\ req[r1].eid > 0 /\ req[r2].eid > 0
            /\ req[r1].rec.id = req[r2].rec.id
            /\ req[r1].rec.start = req[r2].rec.start )
          => StoredKey(r1) = StoredKey(r2)
    /\ \A rec1, rec2 \in RecordSet, u1, u2 \in Users :
          (rec1.id = rec2.id /\ rec1.start = rec2.start)
          => /\ ConvertToLagoEvent(rec1, << "lago", u1 >>).transaction_id
                  = ConvertToLagoEvent(rec2, NoMapping).transaction_id
             /\ ConvertToLagoEvent(rec1, << "lago", u1 >>).transaction_id
                  = HandlerConvertToLagoEvent(rec2, << "org", u2 >>).transaction_id

\* C18 witness: webhook-handler.py stored the record that carries the
\* second quantity under the key of its id and start time.
Wit_C18 ==
    \E r \in DOMAIN req :
        /\ req[r].svc = "handler"
        /\ req[r].eid > 0
        /\ req[r].rec.total_tokens = 20
        /\ webhook_events[req[r].eid].payload.transaction_id = << "litellm", 1, 1 >>
        /\ webhook_events[req[r].eid].payload.properties.total_tokens = 20

\* C19 (as claimed): whichever path records a failed delivery on an entry
\* with stored retry_count r, the entry is left with retry_count r + 1, and
\* with status failed exactly when r + 1 >= max_retries, pending otherwise.
CE_C19 ==
    [][ \A i \in DOMAIN queue :
          (recorded'[i] = recorded[i] + 1 /\ queue'[i].status # "completed")
          => /\ queue'[i].retry_count = queue[i].retry_count + 1
             /\ queue'[i].status =
                  IF queue[i].retry_count + 1 >= MaxRetries THEN "failed"
                                                            ELSE "pending" ]_vars

\* C20 (as claimed): in webhook-handler.py an event that the retry loop
\* marked failed for exceeding max_retries is never returned by
\* get_pending_events again.
CE_C20 ==
    \A i \in DOMAIN webhook_events :
        ( /\ webhook_events[i].status = "failed"
          /\ webhook_events[i].error_message = << "Max retries exceeded", MaxRetries >> )
        => ~HandlerDue(webhook_events[i])

\* The newest recorded update of entry i is the failure the inline attempt of
\* process_usage_event wrote.
InlineFailedLast(i) ==
    /\ recorded[i] = 1
    /\ queue[i].status = "failed"
    /\ \E r \in DOMAIN req : req[r].eid = i /\ req[r].pc = "done" /\ req[r].out = "failed"

\* C21 (as claimed), for a failure recorded by the inline attempt: the next
\* delivery attempt on the entry, by either dispatcher, starts only when at
\* least retry_delay has passed since that failure was recorded.
CE_C21 ==
    [][ \A i \in DOMAIN queue :
          (InlineFailedLast(i) /\ attempts'[i] = attempts[i] + 1)
              => queue[i].processed_at >= RetryDelay ]_vars

\* C22 (as claimed): the failure the inline attempt records leaves a
\* last-attempt time in last_retry_at, and once retry_delay has passed the
\* entry, its retry_count below max_retries, is due for worker.py's
\* get_pending_events.
CE_C22 ==
    \A i \in DOMAIN queue :
        (InlineFailedLast(i) /\ queue[i].retry_count < MaxRetries)
            => /\ queue[i].last_retry_at # NULL
               /\ queue[i].processed_at = Elapsed => WorkerDue(queue[i])

\* C23 (as claimed): an update to completed of an entry that is already
\* completed leaves the row exactly as it was, retry_count and timestamps
\* included.
CE_C23 ==
    [][ \A i \in DOMAIN queue :
          ( /\ queue[i].status = "completed"
            /\ queue'[i].status = "completed"
            /\ recorded'[i] = recorded[i] + 1 )
              => queue'[i] = queue[i] ]_vars

\* b holds at most BatchSize rows, all of them in the set D of due rows, in
\* ascending order of creation, and every due row left out is newer than
\* every row of b.
SelectedOldestDue(b, D) ==
    /\ Len(b) = IF Cardinality(D) <= BatchSize THEN Cardinality(D) ELSE BatchSize
    /\ \A k \in DOMAIN b : b[k].id \in D
    /\ \A k \in DOMAIN b : k < Len(b) => b[k].id < b[k + 1].id
    /\ \A j \in D : (\A k \in DOMAIN b : b[k].id # j)
                        => \A k \in DOMAIN b : b[k].id < j

Thm_C25 ==
    /\ [][ (mainBatch # << >> /\ mainBatch' # mainBatch)
              => mainBatch' = Tail(mainBatch) ]_vars
    /\ [][ (wTasks # << >> /\ wTasks' = << >>)
              => \A k \in DOMAIN wTasks : wTasks[k].pc = "done" ]_vars
    /\ [][ (exceptions' # exceptions /\ wTasks' # wTasks)
              => \E k \in DOMAIN wTasks :
                    /\ wTasks[k].pc = "update" /\ wTasks'[k].pc = "done"
                    /\ \A j \in DOMAIN wTasks \ {k} : wTasks'[j] = wTasks[j] ]_vars
    /\ [](~exited)
    /\ (mainBatch # << >>) ~> (mainBatch = << >>)
    /\ (wTasks # << >>) ~> (wTasks = << >>)
    /\ <>(\A i \in DOMAIN queue : Terminal(queue[i]))

\* The sweep of main.py read entries 1 and 2; processing entry 1 raised
\* before its delivery, and the sweep has gone on to deliver entry 2.
Wit_C25 ==
    /\ exceptions = 1
    /\ Len(queue) = 2
    /\ attempts[1] = 0 /\ recorded[1] = 0
    /\ mainPc = "update"
    /\ Len(mainBatch) = 1
    /\ Head(mainBatch).id = 2
    /\ attempts[2] = 1

\* C26: once WorkerManager.stop has set running to False, the loop of the
\* worker makes no further get_pending_events, whether the request came
\* while it was idle (sleeping, backing off) or while a batch was in
\* flight, and it eventually returns; after that the worker does nothing.
Thm_C26 ==
    /\ [][ ~running => ~(wTasks = << >> /\ wTasks' # << >>) ]_vars
    /\ [][ exited => (exited' /\ wTasks' = wTasks /\ queue' = queue) ]_vars
    /\ (~running) ~> exited

\* The stop request and the close came while a batch was in flight: a
\* delivery of that batch was never recorded, and the loop has returned.
Wit_C26 ==
    /\ exited
    /\ closed
    /\ \E i \in DOMAIN queue : attempts[i] > recorded[i]
    /\ \E i \in DOMAIN queue : attempts[i] = 0

\* C27 (as claimed): when the worker closes its database pool and its HTTP
\* session, no attempt of the batch is in flight: every attempt that had
\* started has its outcome recorded.
CE_C27 ==
    closed => /\ \A k \in DOMAIN wTasks : wTasks[k].pc \notin {"send", "update"}
              /\ \A i \in DOMAIN queue : attempts[i] = recorded[i]

\* The billing event e about to be sent carries the key, the external
\* customer id and the payload stored in row.
SendsStored(e, row) ==
    /\ e.transaction_id = row.transaction_id
    /\ e.external_customer_id = row.external_customer_id
    /\ e.properties = row.event_data.properties
    /\ row.event_data.transaction_id = row.transaction_id
    /\ row.event_data.external_customer_id = row.external_customer_id

\* C28: every delivery attempt on an entry, inline, by the sweep of main.py
\* or by a task of the worker, sends the transaction_id, the
\* external_customer_id and the payload stored when the entry was enqueued,
\* and no step changes those columns or the entry's place in the order of
\* creation.
Thm_C28 ==
    /\ [](\A r \in DOMAIN req :
            (req[r].svc = "integration" /\ req[r].pc = "send")
                => SendsStored(req[r].event, queue[req[r].eid]))
    /\ [](mainPc = "send"
            => SendsStored(Head(mainBatch).event, queue[Head(mainBatch).id]))
    /\ [](\A k \in DOMAIN wTasks :
            wTasks[k].pc = "send"
                => SendsStored(wTasks[k].event, queue[wTasks[k].id]))
    /\ [][ \A i \in DOMAIN queue :
             /\ i \in DOMAIN queue'
             /\ queue'[i].transaction_id = queue[i].transaction_id
             /\ queue'[i].external_customer_id = queue[i].external_customer_id
             /\ queue'[i].event_data = queue[i].event_data
             /\ queue'[i].customer_mapping_id = queue[i].customer_mapping_id ]_vars

\* An entry on its third attempt: the inline attempt and a task of the
\* worker have each recorded an outcome, and the sweep of main.py is about
\* to send what the webhook stored.
Wit_C28 ==
    \E r \in DOMAIN req :
        /\ req[r].pc = "done" /\ req[r].out = "failed"
        /\ recorded[req[r].eid] = 2
        /\ queue[req[r].eid].last_retry_at # NULL
        /\ mainPc = "send"
        /\ Head(mainBatch).id = req[r].eid
        /\ Head(mainBatch).event = ConvertToLagoEvent(req[r].rec, << "lago", "u1" >>)

\* C29 (as claimed): with a webhook secret configured, a request whose
\* signature header is present and is not the HMAC of the body is never
\* answered "accepted" and never produces a queue entry, on either endpoint.
CE_C29 ==
    \A r \in DOMAIN req :
        (webhook_secret /\ req[r].sig = "wrong")
            => req[r].resp # "accepted" /\ req[r].eid = 0

\* C30 (as claimed): the duration in the property bag of the billing event
\* is never negative: a record whose endTime lies before its startTime is
\* rejected by the endpoint, or its duration is clamped to 0 by the
\* conversion, in main.py and in webhook-handler.py.
CE_C30 ==
    /\ \A r \in DOMAIN req :
          req[r].resp = "accepted" =>
              IF req[r].svc = "integration"
              THEN ConvertToLagoEvent(req[r].rec, << "lago", req[r].rec.user >>)
                       .properties.duration_seconds >= 0
              ELSE HandlerConvertToLagoEvent(req[r].rec, << "org", req[r].rec.user >>)
                       .properties.duration_seconds >= 0
    /\ \A i \in DOMAIN queue :
          queue[i].event_data.properties.duration_seconds >= 0
    /\ \A i \in DOMAIN webhook_events :
          webhook_events[i].payload.properties.duration_seconds >= 0

====
